---------------------------- MODULE Spec2Model ----------------------------
(***************************************************************************)
(* A model of the Cosmos gallery scraper.  The repository holds four       *)
(* variants of one program: src/scraper/scrape.mjs and the three earlier   *)
(* revisions src/unnamed/part_000, part_001 and part_002.  Each variant is *)
(* a scroll loop around a DOM snapshot that is merged into a keyed         *)
(* collection, followed by a finalisation that orders and writes the       *)
(* items.  The variable prog says which variant a behaviour runs; the      *)
(* behaviours are those of scrape.mjs, part_001 and part_002.              *)
(*                                                                         *)
(* URLs are records: a host is its sequence of labels, a path its sequence *)
(* of segments, a segment a name and an extension, so that the regular     *)
(* expressions and the URL surgery of the code are structural operations.  *)
(***************************************************************************)
EXTENDS Integers, Sequences, FiniteSets, TLC

(***************************************************************************)
(* URLs                                                                    *)
(***************************************************************************)

\* What the code holds for null, "" or a string new URL() rejects.
NullUrl == [ok |-> FALSE, opaque |-> <<>>, userinfo |-> "", host |-> <<>>, path |-> <<>>,
            query |-> "", hash |-> ""]

Seg(name, ext) == [name |-> name, ext |-> ext]

NoSeg == Seg("", "")

Url(host, path, query) ==
    [ok |-> TRUE, opaque |-> <<>>, userinfo |-> "", host |-> host, path |-> path,
     query |-> query, hash |-> ""]

\* A URL with credentials: https://user@host/path.
UrlWithUser(user, host, path) == [Url(host, path, "") EXCEPT !.userinfo = user]

\* A URL whose path is opaque (mailto:a@b.c, blob:...): new URL() gives it no
\* host and keeps the text after the scheme whole.  The record keeps that
\* text as the user and the labels it would read as behind a "//".
OpaqueUrl(user, labels) == [Url(<<>>, <<>>, "") EXCEPT !.opaque = <<user, labels>>]

LastSeg(path) == IF Len(path) = 0 THEN NoSeg ELSE path[Len(path)]

\* The extension a /\.(...)(\?|$)/ test sees on a pathname.
PathExt(path) == LastSeg(path).ext

IMAGE_EXT == {"jpg", "jpeg", "png", "webp", "gif", "avif", "heic"}

VIDEO_EXT == {"mp4", "webm", "m4v", "mov"}

MEDIA_EXT == IMAGE_EXT \cup VIDEO_EXT

IMAGE_EXT_RE(u) == PathExt(u.path) \in IMAGE_EXT

VIDEO_EXT_RE(u) == PathExt(u.path) \in VIDEO_EXT

MEDIA_EXT_RE(u) == PathExt(u.path) \in MEDIA_EXT

\* The regular expression ends at "?" or at the end of the string: a
\* fragment after the extension hides it.
M3U8_EXT_RE(u) == PathExt(u.path) = "m3u8" /\ u.hash = ""

MUX_STREAM_HOST == <<"stream", "mux", "com">>

MUX_IMAGE_HOST == <<"image", "mux", "com">>

HostTail(h, n) == IF Len(h) < n THEN <<>> ELSE SubSeq(h, Len(h) - n + 1, Len(h))

\* String.includes on a host, for a needle that is a run of labels.
HostIncludes(h, needle) ==
    \E i \in 1..Len(h) :
        /\ i + Len(needle) - 1 <= Len(h)
        /\ SubSeq(h, i, i + Len(needle) - 1) = needle

HasSegNamed(u, names) == \E i \in 1..Len(u.path) : u.path[i].name \in names

(***************************************************************************)
(* scrape.mjs: the pure helpers                                            *)
(***************************************************************************)

CDN_HOST_ALLOW ==
    { <<"cdn", "cosmos", "so">>, <<"files", "cosmos", "so">>, <<"image", "mux", "com">>,
      <<"stream", "mux", "com">>, <<"images", "prismic">>, <<"cloudfront">>,
      <<"googleusercontent">> }

isCosmosImageHost_Any(h) == TRUE

\* h === "cosmos.so" || h.endsWith(".cosmos.so")
isCosmosImageHost(h) == h = <<"cosmos", "so">> \/ (Len(h) > 2 /\ HostTail(h, 2) = <<"cosmos", "so">>)

isExcluded(u) ==
    \/ ~u.ok
    \/ HasSegNamed(u, {"default-avatars", "_next", "favicon"})
    \/ (HostTail(u.host, 2) = <<"cosmos", "so">> /\ Len(u.path) >= 2
            /\ u.path[1].name = "api" /\ u.path[2].name = "avatar")
    \/ M3U8_EXT_RE(u)

isMuxThumbnail(u) ==
    /\ u.ok
    /\ u.host = MUX_IMAGE_HOST
    /\ LastSeg(u.path) = Seg("thumbnail", "png")

normaliseURL_KeepSearch(u) == IF u.ok THEN [u EXCEPT !.userinfo = "", !.hash = ""] ELSE NullUrl

\* new URL(src, base), then `${u.protocol}//${u.host}${u.pathname}`: the
\* string has neither credentials, search nor hash, and an opaque pathname
\* comes to stand behind a "//", where it reads as an authority.
normaliseURL(u) ==
    IF ~u.ok THEN NullUrl
    ELSE IF u.opaque # <<>>
    THEN [u EXCEPT !.opaque = <<>>, !.userinfo = u.opaque[1], !.host = u.opaque[2],
                   !.query = "", !.hash = ""]
    ELSE [u EXCEPT !.userinfo = "", !.query = "", !.hash = ""]

hasFileExtension(path) == LastSeg(path).ext # ""

allowByHostAndExt(u, typeHint) ==
    IF ~u.ok \/ PathExt(u.path) = "m3u8" THEN FALSE
    ELSE LET hostOk == \E h \in CDN_HOST_ALLOW : HostIncludes(u.host, h)
             extOk == MEDIA_EXT_RE(u)
         IN  IF typeHint = "image"
             THEN /\ isCosmosImageHost(u.host)
                  /\ ~VIDEO_EXT_RE(u)
                  /\ (IMAGE_EXT_RE(u) \/ ~hasFileExtension(u.path))
             ELSE extOk \/ hostOk

muxPlaybackIdFromUrl(u) ==
    IF u.ok /\ u.host = MUX_STREAM_HOST /\ Len(u.path) > 0 THEN u.path[1] ELSE NoSeg

\* scrape.mjs keeps low.mp4 as it is.
upgradeMuxLowToHigh(u) == u

isCosmosHostedMp4(u) ==
    /\ u.ok
    /\ VIDEO_EXT_RE(u)
    /\ u.host \in { <<"cdn", "cosmos", "so">>, <<"files", "cosmos", "so">> }

DIM_MAX == 20000

clampDim_NoCeiling(n) == IF n <= 0 THEN 0 ELSE n

\* clampDim on an integer: Number(n) is n, Math.floor(n) is n.
clampDim(n) == IF n <= 0 THEN 0 ELSE IF n > DIM_MAX THEN DIM_MAX ELSE n

\* clampDim on any value a caller may pass: x is [t, v], where t = "int" is
\* the integer v, t = "half" is v + 0.5, and the other tags are NaN,
\* undefined, a text that is no number, Infinity and -Infinity.
\* Number(n) || 0 is 0 for NaN, undefined and text; isFinite rejects the
\* infinities; Math.floor(v + 0.5) is v and Math.max(.., 1) lifts 0 to 1.
clampDimOf(x) ==
    IF x.t \in {"NaN", "undefined", "text"} THEN clampDim(0)
    ELSE IF x.t \in {"Infinity", "-Infinity"} THEN 0
    ELSE IF x.t = "half" THEN (IF x.v < 0 THEN 0 ELSE IF x.v = 0 THEN 1 ELSE clampDim(x.v))
    ELSE clampDim(x.v)


(***************************************************************************)
(* part_002 and part_001: the pure helpers                                 *)
(***************************************************************************)

isExcludedUrl(u) ==
    \/ ~u.ok
    \/ (HostIncludes(u.host, <<"cdn", "cosmos", "so">>) /\ Len(u.path) >= 2
            /\ u.path[1].name = "default-avatars")
    \/ HasSegNamed(u, {"_next", "favicon"})

\* new URL(src, base), search and hash cleared, toString(): credentials and
\* an opaque path stay as they are.
normaliseURL_p2(u) == IF u.ok THEN [u EXCEPT !.query = "", !.hash = ""] ELSE NullUrl

muxPlaybackIdFromStream(u) ==
    IF u.ok /\ u.host = MUX_STREAM_HOST /\ Len(u.path) > 0 THEN u.path[1] ELSE NoSeg

muxPlaybackIdFromThumb(u) ==
    IF u.ok /\ u.host = MUX_IMAGE_HOST /\ Len(u.path) > 0
            /\ LastSeg(u.path) = Seg("thumbnail", "png")
    THEN u.path[1] ELSE NoSeg

upgradeMuxLowToHigh_p2(u) ==
    IF ~u.ok \/ u.host # MUX_STREAM_HOST \/ Len(u.path) = 0 THEN u
    ELSE LET p == IF Len(u.path) >= 2 /\ u.path[2] = Seg("low", "mp4")
                  THEN [u.path EXCEPT ![2] = Seg("high", "mp4")]
                  ELSE u.path
         IN  [u EXCEPT !.path = p, !.query = "", !.hash = ""]

\* new URL(url), hash and search cleared, toString().
normUrl(u) == IF u.ok THEN [u EXCEPT !.query = "", !.hash = ""] ELSE NullUrl

upgradeMux(u) ==
    IF u.ok /\ u.host = MUX_STREAM_HOST /\ Len(u.path) >= 2
    THEN [u EXCEPT !.path = [u.path EXCEPT ![2] = Seg("high", "mp4")], !.query = "", !.hash = ""]
    ELSE u

muxPlaybackIdFromThumb_p1(u) ==
    IF u.ok /\ u.host = MUX_IMAGE_HOST /\ Len(u.path) >= 2 /\ u.path[2] = Seg("thumbnail", "png")
    THEN u.path[1] ELSE NoSeg

(***************************************************************************)
(* Identity keys and the insertion-ordered Map of JavaScript               *)
(***************************************************************************)

\* `${type}:id:${stableId}`, `video:mux:${pid}`, `${type}:url:${src}`
KeyId(type, sid) == [k |-> "id", type |-> type, sid |-> sid, pid |-> NoSeg, url |-> NullUrl]

KeyMux(pid) == [k |-> "mux", type |-> "video", sid |-> "", pid |-> pid, url |-> NullUrl]

KeyUrl(type, u) == [k |-> "url", type |-> type, sid |-> "", pid |-> NoSeg, url |-> u]

\* A Map is the sequence of its entries in insertion order.
MapHas(m, key) == \E j \in 1..Len(m) : m[j].key = key

MapIdx(m, key) == CHOOSE j \in 1..Len(m) : m[j].key = key

MapGet(m, key) == m[MapIdx(m, key)].val

MapSet_Push(m, key, val) == Append(m, [key |-> key, val |-> val])

\* Map.prototype.set: a present key keeps its place.
MapSet(m, key, val) ==
    IF MapHas(m, key) THEN [m EXCEPT ![MapIdx(m, key)].val = val]
    ELSE Append(m, [key |-> key, val |-> val])

MapKeys(m) == { m[j].key : j \in 1..Len(m) }

\* Set.prototype.add on a Set kept in insertion order.
SetAdd(s, x) == IF \E j \in 1..Len(s) : s[j] = x THEN s ELSE Append(s, x)

ByTopLeftDesc(a, b) == IF a.top # b.top THEN b.top - a.top ELSE b.left - a.left

\* The comparator (a.top - b.top) || (a.left - b.left).
ByTopLeft(a, b) == IF a.top # b.top THEN a.top - b.top ELSE a.left - b.left

RECURSIVE InsertSorted(_, _)
InsertSorted(s, x) ==
    IF Len(s) = 0 THEN <<x>>
    ELSE IF ByTopLeft(s[Len(s)], x) <= 0 THEN Append(s, x)
    ELSE Append(InsertSorted(SubSeq(s, 1, Len(s) - 1), x), s[Len(s)])

\* Array.prototype.sort, which is stable.
RECURSIVE Sort(_)
Sort(s) == IF Len(s) = 0 THEN <<>> ELSE InsertSorted(Sort(SubSeq(s, 1, Len(s) - 1)), s[Len(s)])


RECURSIVE FoldSeq(_, _, _)
FoldSeq(Op(_, _), acc, s) == IF Len(s) = 0 THEN acc ELSE FoldSeq(Op, Op(acc, Head(s)), Tail(s))

(***************************************************************************)
(* part_002: collectVisibleTiles and the final sort                        *)
(***************************************************************************)

\* A tile of a snapshot, as page.evaluate returns it: type, src, poster,
\* top, left, width, height and (part_001) stableId; "" and NullUrl stand
\* for null.

Rank(it) == it.top * 100000 + it.left

\* The body of the loop over the batch: st is [itemsByKey, seenMuxThumbPlaybackIds].
MergeTile(st, raw) ==
    LET src0 == normaliseURL_p2(raw.src)
    IN  IF ~src0.ok \/ isExcludedUrl(src0) THEN st
        ELSE IF muxPlaybackIdFromThumb(src0) # NoSeg
        THEN [st EXCEPT !.seenMuxThumbPlaybackIds = @ \cup {muxPlaybackIdFromThumb(src0)}]
        ELSE LET src == upgradeMuxLowToHigh_p2(src0)
                 type == raw.type
                 pid == IF type = "video" THEN muxPlaybackIdFromStream(src) ELSE NoSeg
                 key == IF pid # NoSeg THEN KeyMux(pid) ELSE KeyUrl(type, src)
                 candidate == [type |-> type, src |-> src, width |-> 0, height |-> 0,
                               top |-> raw.top, left |-> raw.left,
                               poster |-> IF raw.poster.ok THEN normaliseURL_p2(raw.poster)
                                          ELSE NullUrl]
             IN  IF ~MapHas(st.itemsByKey, key)
                 THEN [st EXCEPT !.itemsByKey = MapSet(@, key, candidate)]
                 ELSE IF Rank(candidate) < Rank(MapGet(st.itemsByKey, key))
                 THEN [st EXCEPT !.itemsByKey = MapSet(@, key, candidate)]
                 ELSE st

collectVisibleTiles(st, batch) == FoldSeq(MergeTile, st, batch)

Strip_KeepPosition(it) ==
    [type |-> it.type, src |-> it.src, width |-> it.width, height |-> it.height,
     poster |-> it.poster, top |-> it.top, left |-> it.left]

\* The Asset as written: the record without top and left.
Strip(it) == [type |-> it.type, src |-> it.src, width |-> it.width, height |-> it.height,
              poster |-> it.poster]

\* An emitted item with what the finalisation knew of it: its key, the
\* position it was ranked by and the pass that emitted it.
Emitted(it, key, pass) ==
    [asset |-> Strip(it), key |-> key, top |-> it.top, left |-> it.left, pass |-> pass]

MapEntries(m) == [j \in 1..Len(m) |-> [type |-> m[j].val.type, src |-> m[j].val.src,
                                      width |-> m[j].val.width, height |-> m[j].val.height,
                                      poster |-> m[j].val.poster, top |-> m[j].val.top,
                                      left |-> m[j].val.left, key |-> m[j].key]]

\* [...itemsByKey.values()].sort(...).map(strip)
FinalItems_p2(m) ==
    LET sorted == Sort(MapEntries(m))
    IN  [j \in 1..Len(sorted) |-> Emitted(sorted[j], sorted[j].key, "dom")]


(***************************************************************************)
(* part_001: addBatch and the finalisation                                 *)
(***************************************************************************)

SKIP_AVATAR_RE(u) ==
    /\ HostIncludes(u.host, <<"cdn", "cosmos", "so">>)
    /\ Len(u.path) >= 2
    /\ u.path[1].name = "default-avatars"

\* The body of the loop over the batch: st is [collected, added].
AddOne(st, raw) ==
    IF ~raw.src.ok \/ SKIP_AVATAR_RE(raw.src) \/ ~normUrl(raw.src).ok THEN st
    ELSE LET n0 == normUrl(raw.src)
             finalSrc == IF raw.type = "video" THEN upgradeMux(n0) ELSE n0
             playbackId == IF raw.type = "video" THEN muxPlaybackIdFromStream(finalSrc) ELSE NoSeg
             key == IF raw.stableId # "" THEN KeyId(raw.type, raw.stableId)
                    ELSE IF raw.type = "video" /\ playbackId # NoSeg THEN KeyMux(playbackId)
                    ELSE KeyUrl(raw.type, finalSrc)
         IN  IF ~MapHas(st.collected, key)
             THEN [collected |-> MapSet(st.collected, key,
                                    [type |-> raw.type, src |-> finalSrc, width |-> 0,
                                     height |-> 0,
                                     poster |-> IF raw.poster.ok THEN normUrl(raw.poster)
                                                ELSE NullUrl,
                                     top |-> raw.top, left |-> raw.left]),
                   added |-> st.added + 1]
             ELSE LET existing == MapGet(st.collected, key)
                      t == raw.top
                      l == raw.left
                      top1 == IF t # 0 /\ (existing.top = 0 \/ t < existing.top)
                              THEN t ELSE existing.top
                      left1 == IF l # 0 /\ (existing.left = 0 \/ l < existing.left)
                               THEN l ELSE existing.left
                  IN  [st EXCEPT !.collected =
                          MapSet(@, key, [existing EXCEPT !.top = top1, !.left = left1])]

\* extractBatch sorts the tiles of the viewport before it returns them.
extractBatch(tiles) == Sort(tiles)

addBatch(collected, batch) == FoldSeq(AddOne, [collected |-> collected, added |-> 0], batch)

\* The finalisation: the thumbnail filter, the sort, the strip.
FinalItems_p1(m) ==
    LET all == MapEntries(m)
        muxVideos == { muxPlaybackIdFromStream(all[j].src) :
                          j \in { n \in 1..Len(all) : all[n].type = "video" } } \ {NoSeg}
        Keep(it) == \/ it.type # "image"
                    \/ muxPlaybackIdFromThumb_p1(it.src) = NoSeg
                    \/ muxPlaybackIdFromThumb_p1(it.src) \notin muxVideos
        filtered == SelectSeq(all, Keep)
        sorted == Sort(filtered)
    IN  [j \in 1..Len(sorted) |-> Emitted(sorted[j], sorted[j].key, "dom")]

(***************************************************************************)
(* scrape.mjs: collectFromDOM, mergeNetworkToMap and the ordered build     *)
(***************************************************************************)

\* The type hint: the extension first, the element's type otherwise.
TypeHint(u, type) ==
    IF IMAGE_EXT_RE(u) THEN "image"
    ELSE IF VIDEO_EXT_RE(u) THEN "video"
    ELSE IF PathExt(u.path) = "m3u8" THEN "video"
    ELSE type

\* The body of the loop over the batch: st is [positional, foundMap].
CollectOne(st, it) ==
    LET norm0 == normaliseURL(it.src)
    IN  IF \/ ~it.src.ok
           \/ isExcluded(it.src)
           \/ ~norm0.ok
           \/ isExcluded(norm0)
           \/ isMuxThumbnail(norm0)
           \/ M3U8_EXT_RE(norm0)
           \/ ~allowByHostAndExt(norm0, TypeHint(norm0, it.type))
        THEN st
        ELSE LET type == IF VIDEO_EXT_RE(norm0) THEN "video" ELSE "image"
                 nw == clampDim(it.width)
                 nh == clampDim(it.height)
                 pos == [type |-> type, src |-> norm0,
                         poster |-> IF it.poster.ok THEN normaliseURL(it.poster) ELSE NullUrl,
                         top |-> it.top, left |-> it.left, width |-> nw, height |-> nh]
                 fresh == [type |-> type, src |-> norm0, poster |-> NullUrl,
                           width |-> nw, height |-> nh]
             IN  [positional |-> Append(st.positional, pos),
                  foundMap |->
                    IF ~MapHas(st.foundMap, norm0) THEN MapSet(st.foundMap, norm0, fresh)
                    ELSE LET existing == MapGet(st.foundMap, norm0)
                             w1 == IF (existing.width = 0 \/ existing.width < nw) /\ nw # 0
                                   THEN nw ELSE existing.width
                             h1 == IF (existing.height = 0 \/ existing.height < nh) /\ nh # 0
                                   THEN nh ELSE existing.height
                         IN  MapSet(st.foundMap, norm0,
                                    [existing EXCEPT !.width = w1, !.height = h1])]

MergeNetOne(foundMap, u) ==
    IF \/ ~u.ok
       \/ isExcluded(u)
       \/ isMuxThumbnail(u)
       \/ M3U8_EXT_RE(u)
       \/ ~allowByHostAndExt(u, TypeHint(u, "unknown"))
       \/ MapHas(foundMap, u)
    THEN foundMap
    ELSE MapSet(foundMap, u, [type |-> IF VIDEO_EXT_RE(u) THEN "video" ELSE "image",
                              src |-> u, poster |-> NullUrl, width |-> 0, height |-> 0])

Reverse(s) == [j \in 1..Len(s) |-> s[Len(s) + 1 - j]]

mergeNetworkToMap_Reversed(foundMap, netFound) == FoldSeq(MergeNetOne, foundMap, Reverse(netFound))

\* for (const u of netFound): a Set iterates in insertion order.
mergeNetworkToMap(foundMap, netFound) == FoldSeq(MergeNetOne, foundMap, netFound)

collectFromDOM(st, batch, netFound) ==
    LET dom == FoldSeq(CollectOne, st, batch)
    IN  [dom EXCEPT !.foundMap = mergeNetworkToMap(@, netFound)]

hasAnyMux(positional) == \E j \in 1..Len(positional) : positional[j].src.host = MUX_STREAM_HOST

\* `video:mux:${pid}`, `video:url:${norm}` or `image:url:${norm}`
OutKey(type, norm) ==
    IF type = "video"
    THEN IF muxPlaybackIdFromUrl(norm) # NoSeg THEN KeyMux(muxPlaybackIdFromUrl(norm))
         ELSE KeyUrl("video", norm)
    ELSE KeyUrl("image", norm)

SeenHas_Never(seen, key) == FALSE

\* seen.has(key)
SeenHas(seen, key) == key \in seen

\* The loop over the sorted positional list: acc is [seen, ordered].
PositionalStep(anyMux, acc, it) ==
    LET src == IF it.type = "video" THEN upgradeMuxLowToHigh(it.src) ELSE it.src
        norm == normaliseURL(src)
        key == OutKey(it.type, norm)
        p == normaliseURL(it.poster)
        out == [type |-> it.type, src |-> norm, width |-> clampDim(it.width),
                height |-> clampDim(it.height),
                poster |-> IF it.poster.ok /\ p.ok /\ ~isExcluded(p) /\ ~isMuxThumbnail(p)
                                /\ ~M3U8_EXT_RE(p)
                           THEN p ELSE NullUrl,
                top |-> it.top, left |-> it.left]
    IN  IF \/ isMuxThumbnail(it.src)
           \/ M3U8_EXT_RE(it.src)
           \/ (it.type = "image" /\ ~isCosmosImageHost(it.src.host))
           \/ (it.type = "video" /\ anyMux /\ isCosmosHostedMp4(src))
           \/ ~norm.ok
           \/ SeenHas(acc.seen, key)
        THEN acc
        ELSE [seen |-> acc.seen \cup {key},
              ordered |-> Append(acc.ordered, Emitted(out, key, "dom"))]

\* The loop over foundMap.values(): the items no snapshot positioned.
NetworkOnlyStep(anyMux, acc, v) ==
    LET src == v.src
        type == v.type
        finalSrc == IF type = "video" THEN upgradeMuxLowToHigh(src) ELSE src
        norm == normaliseURL(finalSrc)
        key == OutKey(type, norm)
        out == [type |-> type, src |-> norm, width |-> clampDim(v.width),
                height |-> clampDim(v.height), poster |-> NullUrl, top |-> 0, left |-> 0]
    IN  IF \/ ~src.ok
           \/ isExcluded(src)
           \/ isMuxThumbnail(src)
           \/ M3U8_EXT_RE(src)
           \/ ~allowByHostAndExt(src, TypeHint(src, type))
           \/ (type = "image" /\ ~isCosmosImageHost(src.host))
           \/ (type = "video" /\ anyMux /\ isCosmosHostedMp4(finalSrc))
           \/ M3U8_EXT_RE(finalSrc)
           \/ ~norm.ok
           \/ SeenHas(acc.seen, key)
        THEN acc
        ELSE [seen |-> acc.seen \cup {key},
              ordered |-> Append(acc.ordered, Emitted(out, key, "net"))]

MapValues(m) == [j \in 1..Len(m) |-> m[j].val]

\* positional.sort(...), then the two loops that share `seen`.
BuildOrdered(positional, foundMap) ==
    LET sorted == Sort(positional)
        anyMux == hasAnyMux(sorted)
        PStep(acc, it) == PositionalStep(anyMux, acc, it)
        NStep(acc, v) == NetworkOnlyStep(anyMux, acc, v)
        first == FoldSeq(PStep, [seen |-> {}, ordered |-> <<>>], sorted)
    IN  FoldSeq(NStep, first, MapValues(foundMap)).ordered


(***************************************************************************)
(* scrape.mjs: the response handler                                        *)
(***************************************************************************)

\* A response: its URL, whether its content type is JSON, and the URLs the
\* regular expression finds in its body.

\* The handler up to its first return or await.
OnResponseUrl(netFound, res) ==
    LET norm == normaliseURL(res.url)
        hint == IF IMAGE_EXT_RE(norm) THEN "image"
                ELSE IF VIDEO_EXT_RE(norm) THEN "video" ELSE "unknown"
    IN  IF ~norm.ok \/ isExcluded(norm) \/ isMuxThumbnail(norm) \/ M3U8_EXT_RE(norm)
        THEN netFound
        ELSE IF MEDIA_EXT_RE(norm) /\ allowByHostAndExt(norm, hint) THEN SetAdd(netFound, norm)
        ELSE netFound

\* Whether the handler goes on to await res.text().
AwaitsBody(res) ==
    LET norm == normaliseURL(res.url)
    IN  /\ norm.ok
        /\ ~isExcluded(norm)
        /\ ~isMuxThumbnail(norm)
        /\ ~M3U8_EXT_RE(norm)
        /\ ~MEDIA_EXT_RE(norm)
        /\ res.json

\* The loop over the URLs of the body.
BodyUrl(netFound, u) ==
    LET n == normaliseURL(u)
    IN  IF \/ ~n.ok
           \/ isExcluded(n)
           \/ isMuxThumbnail(n)
           \/ M3U8_EXT_RE(n)
           \/ ~allowByHostAndExt(n, TypeHint(n, "unknown"))
        THEN netFound
        ELSE SetAdd(netFound, n)

FirstBad(body) ==
    IF \E j \in 1..Len(body) : ~body[j].ok
    THEN CHOOSE j \in 1..Len(body) : ~body[j].ok /\ \A k \in 1..(j - 1) : body[k].ok
    ELSE Len(body) + 1

OnResponseBody_StopAtBad(netFound, body) ==
    FoldSeq(BodyUrl, netFound, SubSeq(body, 1, FirstBad(body) - 1))

\* for (const u of urls): every URL of the body, one try/catch apart.
OnResponseBody(netFound, body) == FoldSeq(BodyUrl, netFound, body)

(***************************************************************************)
(* The state                                                               *)
(***************************************************************************)

VARIABLES
    prog,           \* the variant that runs
    MAX_SCROLLS,    \* process.env.MAX_SCROLLS
    STABLE_CHECKS,  \* process.env.STABLE_CHECKS
    pc,             \* where the main coroutine is
    i,              \* the loop counter
    lastH, stable,              \* the height streak (scrape.mjs, part_002)
    lastCount, noNewCount,      \* the item streak (part_002)
    noNewRuns, stuckRuns, beforeY,   \* the streaks of part_001
    scrollY,        \* the page: window.scrollY
    itemsByKey, seenMuxThumbPlaybackIds,   \* part_002
    collected,                              \* part_001
    positional, foundMap, netFound,         \* scrape.mjs
    inFlight,       \* scrape.mjs: bodies whose res.text() is awaited
    ordered,        \* the emitted items, with what the finalisation knew of each
    payload,        \* the JSON written to OUT_FILE
    pageH,          \* the page: document.body.scrollHeight
    domLeft, netLeft,   \* the page: tiles and responses it may still produce
    prevH, calm,    \* history: consecutive steps that left the page height unchanged
    observed,       \* history: the tiles the snapshots returned
    quiet,          \* history: consecutive steps that merged no new identity
    exit,           \* history: how the loop was left
    exitCode,       \* the exit status of the process
    nav,            \* history: whether page.goto resolved
    heard           \* history: the responses the handler was called with

vars == <<prog, MAX_SCROLLS, STABLE_CHECKS, pc, i, lastH, stable, lastCount, noNewCount,
          noNewRuns, stuckRuns, beforeY, scrollY, itemsByKey, seenMuxThumbPlaybackIds,
          collected, positional, foundMap, netFound, inFlight, ordered, payload,
          pageH, domLeft, netLeft, prevH, calm, observed, quiet, exit, exitCode, nav,
          heard>>

loopVars == <<lastH, stable, lastCount, noNewCount, noNewRuns, stuckRuns, beforeY>>

storeVars == <<itemsByKey, seenMuxThumbPlaybackIds, collected, positional, foundMap>>

configVars == <<prog, MAX_SCROLLS, STABLE_CHECKS>>

Progs == {"scrape.mjs", "part_001", "part_002"}

\* const COSMOS_URL = process.env.COSMOS_URL || ...
COSMOS_URL == "https://www.cosmos.so/rlphoto/swim"

NoPayload == [written |-> FALSE, ok |-> FALSE, source |-> "", count |-> 0, items |-> <<>>,
              error |-> ""]

\* part_001: failPayload, with the message of the rejection.
FailPayload(message) ==
    [written |-> TRUE, ok |-> FALSE, source |-> COSMOS_URL, count |-> 0, items |-> <<>>,
     error |-> message]

LoopCond_NoCeiling(n, max) == TRUE

\* for (let i = 0; i < MAX_SCROLLS; i++)
LoopCond(n, max) == n < max

NextI(n) == n + 1

AfterLoop_Rescroll(p) == "scroll"

\* Where the code goes when the loop is over: part_001 takes no last snapshot.
AfterLoop(p) == IF p = "part_001" THEN "close" ELSE "final"

InitWith(maxScrolls, stableChecks) ==
    /\ prog \in Progs
    /\ MAX_SCROLLS = maxScrolls
    /\ STABLE_CHECKS = stableChecks
    /\ i = 0
    /\ pc = "goto"
    /\ exitCode = 0
    /\ nav = "pending"
    /\ heard = {}
    /\ lastH = 0 /\ stable = 0
    /\ lastCount = 0 /\ noNewCount = 0
    /\ noNewRuns = 0 /\ stuckRuns = 0 /\ beforeY = 0
    /\ scrollY = 0
    /\ pageH = 0
    /\ prevH = 0 /\ calm = 0
    /\ itemsByKey = <<>> /\ seenMuxThumbPlaybackIds = {}
    /\ collected = <<>>
    /\ positional = <<>> /\ foundMap = <<>> /\ netFound = <<>>
    /\ inFlight = {}
    /\ ordered = <<>>
    /\ payload = NoPayload
    /\ observed = {}
    /\ quiet = 0
    /\ exit = "none"


(***************************************************************************)
(* The actions                                                             *)
(***************************************************************************)

AllBatches(tiles, n) == UNION { [1..k -> tiles] : k \in 0..n }

InLoop == pc \in {"collect", "scroll", "wait", "measure"}

\* The history of a snapshot: what it returned, and whether it grew the store.
Noted(batch, before, after) ==
    /\ observed' = observed \cup { batch[j] : j \in 1..Len(batch) }
    /\ domLeft' = domLeft - Len(batch)
    /\ quiet' = IF pc = "collect" THEN (IF after > before THEN 0 ELSE quiet + 1) ELSE quiet

\* The exit status of a process whose main promise rejected with no handler:
\* Node 15 and later end with 1, earlier ones warn and end with 0.
UnhandledRejectionCodes == {0, 1}

\* await page.goto(COSMOS_URL, ...): it resolves, or it rejects.  part_001
\* catches the rejection, writes failPayload and sets process.exitCode;
\* scrape.mjs and part_002 await it in an async function nobody catches.
DoGoto(ok) ==
    /\ pc = "goto"
    /\ nav' = IF ok THEN "ok" ELSE "failed"
    /\ IF ok
       THEN /\ pc' = IF LoopCond(0, MAX_SCROLLS) THEN "collect" ELSE AfterLoop(prog)
            /\ UNCHANGED <<payload, exitCode>>
       ELSE IF prog = "part_001"
       THEN /\ pc' = "done"
            /\ payload' = FailPayload("goto")
            /\ exitCode' = 1
       ELSE /\ pc' = "crashed"
            /\ exitCode' \in UnhandledRejectionCodes
            /\ UNCHANGED payload
    /\ UNCHANGED <<configVars, heard, i, loopVars, scrollY, storeVars, netFound, inFlight, ordered,
                   pageH, domLeft, netLeft, prevH, calm, observed, quiet, exit>>

\* part_002: await collectVisibleTiles(), in the loop (with the count of the
\* items) and once more after it.
DoCollectVisibleTiles(batch) ==
    /\ prog = "part_002"
    /\ pc \in {"collect", "final"}
    /\ Len(batch) <= domLeft
    /\ LET st == collectVisibleTiles([itemsByKey |-> itemsByKey,
                    seenMuxThumbPlaybackIds |-> seenMuxThumbPlaybackIds], batch)
           countNow == Len(st.itemsByKey)
       IN  /\ itemsByKey' = st.itemsByKey
           /\ seenMuxThumbPlaybackIds' = st.seenMuxThumbPlaybackIds
           /\ IF pc = "collect"
              THEN /\ noNewCount' = IF countNow = lastCount THEN noNewCount + 1 ELSE 0
                   /\ lastCount' = countNow
                   /\ pc' = "scroll"
              ELSE /\ UNCHANGED <<noNewCount, lastCount>>
                   /\ pc' = "close"
           /\ Noted(batch, Len(itemsByKey), countNow)
    /\ UNCHANGED <<configVars, exitCode, nav, heard, i, lastH, stable, noNewRuns, stuckRuns, beforeY, scrollY,
                   collected, positional, foundMap, netFound, inFlight, ordered, payload,
                   pageH, netLeft, prevH, calm, exit>>

\* part_001: beforeY, extractBatch(), addBatch() and the noNewRuns streak.
DoAddBatch(tiles) ==
    /\ prog = "part_001"
    /\ pc = "collect"
    /\ Len(tiles) <= domLeft
    /\ LET r == addBatch(collected, extractBatch(tiles))
       IN  /\ collected' = r.collected
           /\ noNewRuns' = IF r.added = 0 THEN noNewRuns + 1 ELSE 0
           /\ Noted(tiles, Len(collected), Len(r.collected))
    /\ beforeY' = scrollY
    /\ pc' = "scroll"
    /\ UNCHANGED <<configVars, exitCode, nav, heard, i, lastH, stable, lastCount, noNewCount, stuckRuns, scrollY,
                   itemsByKey, seenMuxThumbPlaybackIds, positional, foundMap, netFound,
                   inFlight, ordered, payload, pageH, netLeft, prevH, calm, exit>>

\* scrape.mjs: await collectFromDOM(), in the loop and once more after it.
DoCollectFromDOM(batch) ==
    /\ prog = "scrape.mjs"
    /\ pc \in {"collect", "final"}
    /\ Len(batch) <= domLeft
    /\ LET st == collectFromDOM([positional |-> positional, foundMap |-> foundMap],
                                batch, netFound)
       IN  /\ positional' = st.positional
           /\ foundMap' = st.foundMap
           /\ Noted(batch, Len(foundMap), Len(st.foundMap))
    /\ pc' = IF pc = "collect" THEN "scroll" ELSE "close"
    /\ UNCHANGED <<configVars, exitCode, nav, heard, i, loopVars, scrollY, itemsByKey, seenMuxThumbPlaybackIds,
                   collected, netFound, inFlight, ordered, payload, pageH, netLeft,
                   prevH, calm, exit>>

\* The wheel or scrollBy: the page moves, or is at its end and does not.
DoScroll(y) ==
    /\ pc = "scroll"
    /\ scrollY' = IF prog = "part_001" THEN y ELSE scrollY
    /\ pc' = "wait"
    /\ UNCHANGED <<configVars, exitCode, nav, heard, i, loopVars, storeVars, netFound, inFlight, ordered, payload,
                   pageH, domLeft, netLeft, prevH, calm, observed, quiet, exit>>

\* waitForTimeout(WAIT_BETWEEN): the page loads more, or has no more.
DoWait(h) ==
    /\ pc = "wait"
    /\ pageH' = h
    /\ pc' = "measure"
    /\ UNCHANGED <<configVars, exitCode, nav, heard, i, loopVars, scrollY, storeVars, netFound, inFlight, ordered,
                   payload, domLeft, netLeft, prevH, calm, observed, quiet, exit>>

\* The end of a step: `break`, or i++ and the loop condition.
EndStep(leave) ==
    /\ prevH' = pageH
    /\ calm' = IF pageH = prevH THEN calm + 1 ELSE 0
    /\ IF leave
       THEN /\ pc' = AfterLoop(prog)
            /\ exit' = "break"
            /\ i' = i
       ELSE /\ i' = NextI(i)
            /\ pc' = IF LoopCond(NextI(i), MAX_SCROLLS) THEN "collect" ELSE AfterLoop(prog)
            /\ exit' = IF LoopCond(NextI(i), MAX_SCROLLS) THEN exit ELSE "ceiling"

\* scrape.mjs: the page height and the `stable` streak, which alone ends the loop.
DoMeasure ==
    /\ prog = "scrape.mjs"
    /\ pc = "measure"
    /\ LET h == pageH
       IN  IF h = lastH
           THEN /\ stable' = stable + 1
                /\ lastH' = lastH
                /\ EndStep(stable + 1 >= STABLE_CHECKS)
           ELSE /\ stable' = 0
                /\ lastH' = h
                /\ EndStep(FALSE)
    /\ UNCHANGED <<configVars, exitCode, nav, heard, lastCount, noNewCount, noNewRuns, stuckRuns, beforeY, scrollY,
                   storeVars, netFound, inFlight, ordered, payload, pageH, domLeft, netLeft,
                   observed, quiet>>

DoMeasureBoth_NoReset ==
    /\ prog = "part_002"
    /\ pc = "measure"
    /\ LET h == pageH
           stable1 == IF h = lastH THEN stable + 1 ELSE stable
       IN  /\ stable' = stable1
           /\ lastH' = h
           /\ EndStep(stable1 >= STABLE_CHECKS /\ noNewCount >= STABLE_CHECKS)
    /\ UNCHANGED <<configVars, exitCode, nav, heard, lastCount, noNewCount, noNewRuns, stuckRuns, beforeY, scrollY,
                   storeVars, netFound, inFlight, ordered, payload, pageH, domLeft, netLeft,
                   observed, quiet>>

\* part_002: the page height, and the stop when both streaks are long enough.
DoMeasureBoth ==
    /\ prog = "part_002"
    /\ pc = "measure"
    /\ LET h == pageH
           stable1 == IF h = lastH THEN stable + 1 ELSE 0
       IN  /\ stable' = stable1
           /\ lastH' = h
           /\ EndStep(stable1 >= STABLE_CHECKS /\ noNewCount >= STABLE_CHECKS)
    /\ UNCHANGED <<configVars, exitCode, nav, heard, lastCount, noNewCount, noNewRuns, stuckRuns, beforeY, scrollY,
                   storeVars, netFound, inFlight, ordered, payload, pageH, domLeft, netLeft,
                   observed, quiet>>

\* part_001: afterY and the stuckRuns streak.
DoMeasureScrollY ==
    /\ prog = "part_001"
    /\ pc = "measure"
    /\ LET afterY == scrollY
           stuck1 == IF afterY = beforeY THEN stuckRuns + 1 ELSE 0
       IN  /\ stuckRuns' = stuck1
           /\ EndStep(noNewRuns >= STABLE_CHECKS /\ stuck1 >= 3)
    /\ UNCHANGED <<configVars, exitCode, nav, heard, lastH, stable, lastCount, noNewCount, noNewRuns, beforeY,
                   scrollY, storeVars, netFound, inFlight, ordered, payload, pageH, domLeft,
                   netLeft, observed, quiet>>

\* scrape.mjs: page.on("response"), up to its return or its await.
OnResponse(res) ==
    /\ prog = "scrape.mjs"
    /\ pc \notin {"done", "crashed"}
    /\ netLeft > 0
    /\ netLeft' = netLeft - 1
    /\ netFound' = OnResponseUrl(netFound, res)
    /\ heard' = heard \cup {res}
    /\ inFlight' = IF AwaitsBody(res) THEN inFlight \cup {res.body} ELSE inFlight
    /\ UNCHANGED <<configVars, exitCode, nav, pc, i, loopVars, scrollY, storeVars, ordered, payload, pageH,
                   domLeft, prevH, calm, observed, quiet, exit>>

OnBody_Merging(body) ==
    /\ prog = "scrape.mjs"
    /\ pc \notin {"done", "crashed"}
    /\ body \in inFlight
    /\ inFlight' = inFlight \ {body}
    /\ netFound' = OnResponseBody(netFound, body)
    /\ foundMap' = mergeNetworkToMap(foundMap, OnResponseBody(netFound, body))
    /\ UNCHANGED <<configVars, exitCode, nav, heard, pc, i, loopVars, scrollY, itemsByKey,
                   seenMuxThumbPlaybackIds, collected, positional, ordered, payload, pageH,
                   domLeft, netLeft, prevH, calm, observed, quiet, exit>>

\* scrape.mjs: res.text() resolves and the handler scans the body.
OnBody(body) ==
    /\ prog = "scrape.mjs"
    /\ pc \notin {"done", "crashed"}
    /\ body \in inFlight
    /\ inFlight' = inFlight \ {body}
    /\ netFound' = OnResponseBody(netFound, body)
    /\ UNCHANGED <<configVars, exitCode, nav, heard, pc, i, loopVars, scrollY, storeVars, ordered, payload, pageH,
                   domLeft, netLeft, prevH, calm, observed, quiet, exit>>

FinalItems ==
    IF prog = "part_002" THEN FinalItems_p2(itemsByKey)
    ELSE IF prog = "part_001" THEN FinalItems_p1(collected)
    ELSE BuildOrdered(positional, foundMap)

\* browser.close(), the ordering, and the write of the payload.
DoFinalise ==
    /\ pc = "close"
    /\ ordered' = FinalItems
    /\ payload' = [written |-> TRUE, ok |-> TRUE, source |-> COSMOS_URL,
                   count |-> Len(FinalItems),
                   items |-> [j \in 1..Len(FinalItems) |-> FinalItems[j].asset],
                   error |-> ""]
    /\ pc' = "done"
    /\ UNCHANGED <<configVars, exitCode, nav, heard, i, loopVars, scrollY, storeVars, netFound, inFlight, pageH,
                   domLeft, netLeft, prevH, calm, observed, quiet, exit>>


(***************************************************************************)
(* The page: what the snapshots and the network may show                   *)
(***************************************************************************)

MaxDom == 2

MaxNet == 2

PipeScrolls == 1

PipeChecks == 1

LoopScrolls == 5

LoopChecks == 3

P1 == Seg("p1", "")

muxLow == Url(MUX_STREAM_HOST, <<P1, Seg("low", "mp4")>>, "")

muxHigh == Url(MUX_STREAM_HOST, <<P1, Seg("high", "mp4")>>, "")

muxThumb == Url(MUX_IMAGE_HOST, <<P1, Seg("thumbnail", "png")>>, "")

cosmosImg == Url(<<"cdn", "cosmos", "so">>, <<Seg("a", "jpg")>>, "v=1")

cosmosImgB == Url(<<"cdn", "cosmos", "so">>, <<Seg("b", "jpg")>>, "")

apiFeed == Url(<<"www", "cosmos", "so">>, <<Seg("api", ""), Seg("feed", "")>>, "")

Tile(type, src, poster, pos, sid) ==
    [type |-> type, src |-> src, poster |-> poster, top |-> pos[1], left |-> pos[2],
     width |-> 0, height |-> 0, stableId |-> sid]

Positions == { <<1, 2>>, <<2, 1>> }

\* The stable ids a listitem of part_001 may carry; the other variants read none.
StableIds == IF prog = "part_001" THEN {"", "t1"} ELSE {""}

GalleryTiles ==
    { Tile("video", src, poster, pos, sid) :
        src \in {muxLow, muxHigh}, poster \in {NullUrl, muxThumb}, pos \in Positions,
        sid \in StableIds }
    \cup
    { Tile("image", src, NullUrl, pos, sid) :
        src \in {muxThumb, cosmosImg}, pos \in Positions, sid \in StableIds }

Response(url, json, body) == [url |-> url, json |-> json, body |-> body]

GalleryResponses ==
    { Response(u, FALSE, <<>>) : u \in {muxLow, muxHigh, cosmosImg} }
    \cup { Response(apiFeed, TRUE, b) : b \in { <<muxHigh, cosmosImg>>, <<cosmosImgB, muxLow>> } }

\* A feed of plain images, for the runs that exercise the scroll loop.
FeedTiles == { Tile("image", cosmosImg, NullUrl, <<1, 2>>, ""),
               Tile("image", cosmosImgB, NullUrl, <<2, 1>>, "") }

Heights == {1, 2}

ScrollYs == {0, 1}

\* A page with a tile whose src does not parse, and JSON bodies that cannot
\* be read (res.text() rejects and reads as "") or hold a URL that does not
\* parse before one that does.
MalformedTiles ==
    { Tile("image", NullUrl, NullUrl, <<1, 2>>, ""),
      Tile("image", cosmosImg, NullUrl, <<1, 2>>, ""),
      Tile("video", muxLow, NullUrl, <<2, 1>>, "") }

MalformedResponses ==
    { Response(apiFeed, TRUE, <<>>),
      Response(apiFeed, TRUE, <<NullUrl, cosmosImgB>>),
      Response(cosmosImg, FALSE, <<>>) }

\* A page that serves one image under several query strings and fragments,
\* from a cosmos.so host and from another CDN.
WithQuery(u, q, h) == [u EXCEPT !.query = q, !.hash = h]

cdnX == Url(<<"cdn", "x">>, <<Seg("a", "jpg")>>, "")

QueryTiles ==
    { Tile("image", WithQuery(u, q, ""), NullUrl, <<1, 2>>, "") :
        u \in {cosmosImg, cdnX}, q \in {"v=1", "v=2"} }
    \cup { Tile("image", WithQuery(cosmosImg, "", "f"), NullUrl, <<1, 2>>, "") }

\* A page that plays one clip from stream.mux.com and from a cosmos.so host,
\* and whose player also names the clip's streaming manifest.
cosmosMp4 == Url(<<"cdn", "cosmos", "so">>, <<Seg("video", "mp4")>>, "")

muxManifest == Url(MUX_STREAM_HOST, <<Seg("p1", "m3u8")>>, "")

MediaTiles ==
    { Tile("video", src, NullUrl, pos, "") :
        src \in {muxLow, cosmosMp4, muxManifest}, pos \in Positions }
    \cup { Tile("video", muxLow, muxManifest, pos, "") : pos \in Positions }

MediaResponses ==
    { Response(u, FALSE, <<>>) : u \in {muxLow, cosmosMp4, muxManifest} }
    \cup { Response(apiFeed, TRUE, <<muxManifest, cosmosMp4>>) }

\* A page that shows one clip in three renditions.
muxMedium == Url(MUX_STREAM_HOST, <<P1, Seg("medium", "mp4")>>, "")

TierTiles ==
    { Tile("video", src, NullUrl, pos, "") :
        src \in {muxLow, muxMedium, muxHigh}, pos \in Positions }

\* A page whose image reports other dimensions from one snapshot to the
\* next: unknown, known, out of range.
TileDim(type, src, pos, w, h) == [Tile(type, src, NullUrl, pos, "") EXCEPT !.width = w, !.height = h]

DimPairs == { <<0, 0>>, <<5, 9>>, <<9, 5>>, <<0 - 1, DIM_MAX + 1>> }

DimTiles == { TileDim("image", cosmosImg, pos, d[1], d[2]) : pos \in Positions, d \in DimPairs }

\* The values clampDim may be handed.
JsValues ==
    { [t |-> "int", v |-> n] : n \in {0 - 1, 0, 1, 5, DIM_MAX, DIM_MAX + 1} }
    \cup { [t |-> "half", v |-> n] : n \in {0 - 1, 0, 5, DIM_MAX} }
    \cup { [t |-> k, v |-> 0] : k \in {"NaN", "undefined", "text", "Infinity", "-Infinity"} }

\* A page whose <video> elements have a poster: one plays a stream.mux.com
\* file, the other a cosmos.so URL without a file extension.
cosmosClip == Url(<<"cdn", "cosmos", "so">>, <<Seg("clip", "")>>, "")

PosterTiles ==
    { Tile("video", src, cosmosImgB, pos, "") : src \in {muxLow, cosmosClip}, pos \in Positions }
    \cup { Tile("image", cosmosImg, NullUrl, pos, "") : pos \in Positions }

\* A page with images on cosmos.so and on another allow-listed CDN, with
\* and without a file extension, and a default avatar.
cosmosBare == Url(<<"cdn", "cosmos", "so">>, <<Seg("0a1b", "")>>, "")

cosmosAvatar == Url(<<"cdn", "cosmos", "so">>, <<Seg("default-avatars", ""), Seg("7", "")>>, "")

prismicImg == Url(<<"images", "prismic", "io">>, <<Seg("c", "jpg")>>, "")

prismicBare == Url(<<"images", "prismic", "io">>, <<Seg("d", "")>>, "")

HostTiles ==
    { Tile("image", src, NullUrl, pos, "") :
        src \in {cosmosBare, cosmosAvatar, prismicImg, prismicBare}, pos \in Positions }
    \cup { Tile("video", prismicBare, NullUrl, <<1, 2>>, "") }

HostResponses ==
    { Response(prismicImg, FALSE, <<>>),
      Response(apiFeed, TRUE, <<prismicBare, cosmosBare>>) }

(***************************************************************************)
(* The specifications                                                      *)
(***************************************************************************)

\* A run over a gallery of videos, posters and images, with a short loop.
Init ==
    /\ InitWith(PipeScrolls, PipeChecks)
    /\ domLeft = MaxDom
    /\ netLeft = IF prog = "scrape.mjs" THEN MaxNet ELSE 0

Next ==
    \/ \E ok \in BOOLEAN : DoGoto(ok)
    \/ \E batch \in AllBatches(GalleryTiles, MaxDom) : DoCollectVisibleTiles(batch)
    \/ \E batch \in AllBatches(GalleryTiles, MaxDom) : DoAddBatch(batch)
    \/ \E batch \in AllBatches(GalleryTiles, MaxDom) : DoCollectFromDOM(batch)
    \/ \E y \in ScrollYs : DoScroll(y)
    \/ \E h \in {1} : DoWait(h)
    \/ DoMeasure
    \/ DoMeasureBoth
    \/ DoMeasureScrollY
    \/ \E res \in GalleryResponses : OnResponse(res)
    \/ \E body \in inFlight : OnBody(body)
    \/ DoFinalise

Spec == Init /\ [][Next]_vars

\* A run over a feed of images, with a loop long enough for the streaks.
InitLoop ==
    /\ InitWith(LoopScrolls, LoopChecks)
    /\ domLeft = MaxDom
    /\ netLeft = 0

NextLoop ==
    \/ DoGoto(TRUE)
    \/ \E batch \in AllBatches(FeedTiles, 1) : DoCollectVisibleTiles(batch)
    \/ \E batch \in AllBatches(FeedTiles, 1) : DoAddBatch(batch)
    \/ \E batch \in AllBatches(FeedTiles, 1) : DoCollectFromDOM(batch)
    \/ \E y \in ScrollYs : DoScroll(y)
    \/ \E h \in Heights : DoWait(h)
    \/ DoMeasure
    \/ DoMeasureBoth
    \/ DoMeasureScrollY
    \/ DoFinalise

SpecLoop == InitLoop /\ [][NextLoop]_vars

\* A run over a page whose images come under several query strings.
InitQuery ==
    /\ InitWith(PipeScrolls, PipeChecks)
    /\ domLeft = MaxDom
    /\ netLeft = 0

NextQuery ==
    \/ DoGoto(TRUE)
    \/ \E batch \in AllBatches(QueryTiles, MaxDom) : DoCollectVisibleTiles(batch)
    \/ \E batch \in AllBatches(QueryTiles, MaxDom) : DoAddBatch(batch)
    \/ \E batch \in AllBatches(QueryTiles, MaxDom) : DoCollectFromDOM(batch)
    \/ \E y \in ScrollYs : DoScroll(y)
    \/ \E h \in {1} : DoWait(h)
    \/ DoMeasure
    \/ DoMeasureBoth
    \/ DoMeasureScrollY
    \/ DoFinalise

SpecQuery == InitQuery /\ [][NextQuery]_vars

\* A run over a page that holds a clip from two hosts and its manifest.
InitMedia ==
    /\ InitWith(PipeScrolls, PipeChecks)
    /\ domLeft = MaxDom
    /\ netLeft = IF prog = "scrape.mjs" THEN MaxNet ELSE 0

NextMedia ==
    \/ DoGoto(TRUE)
    \/ \E batch \in AllBatches(MediaTiles, MaxDom) : DoCollectVisibleTiles(batch)
    \/ \E batch \in AllBatches(MediaTiles, MaxDom) : DoAddBatch(batch)
    \/ \E batch \in AllBatches(MediaTiles, MaxDom) : DoCollectFromDOM(batch)
    \/ \E y \in ScrollYs : DoScroll(y)
    \/ \E h \in {1} : DoWait(h)
    \/ DoMeasure
    \/ DoMeasureBoth
    \/ DoMeasureScrollY
    \/ \E res \in MediaResponses : OnResponse(res)
    \/ \E body \in inFlight : OnBody(body)
    \/ DoFinalise

SpecMedia == InitMedia /\ [][NextMedia]_vars

\* A run over a page that shows one clip in three renditions.
InitTier ==
    /\ InitWith(PipeScrolls, PipeChecks)
    /\ domLeft = MaxDom
    /\ netLeft = 0

NextTier ==
    \/ DoGoto(TRUE)
    \/ \E batch \in AllBatches(TierTiles, MaxDom) : DoCollectVisibleTiles(batch)
    \/ \E batch \in AllBatches(TierTiles, MaxDom) : DoAddBatch(batch)
    \/ \E batch \in AllBatches(TierTiles, MaxDom) : DoCollectFromDOM(batch)
    \/ \E y \in ScrollYs : DoScroll(y)
    \/ \E h \in {1} : DoWait(h)
    \/ DoMeasure
    \/ DoMeasureBoth
    \/ DoMeasureScrollY
    \/ DoFinalise

SpecTier == InitTier /\ [][NextTier]_vars

\* A run of scrape.mjs over a page whose image changes its dimensions.
InitDim ==
    /\ InitWith(PipeScrolls, PipeChecks)
    /\ prog = "scrape.mjs"
    /\ domLeft = MaxDom
    /\ netLeft = 0

NextDim ==
    \/ DoGoto(TRUE)
    \/ \E batch \in AllBatches(DimTiles, MaxDom) : DoCollectFromDOM(batch)
    \/ \E y \in ScrollYs : DoScroll(y)
    \/ \E h \in {1} : DoWait(h)
    \/ DoMeasure
    \/ DoFinalise

SpecDim == InitDim /\ [][NextDim]_vars

\* A run over a page whose <video> elements have a poster.
InitPoster ==
    /\ InitWith(PipeScrolls, PipeChecks)
    /\ domLeft = MaxDom
    /\ netLeft = 0

NextPoster ==
    \/ DoGoto(TRUE)
    \/ \E batch \in AllBatches(PosterTiles, MaxDom) : DoCollectVisibleTiles(batch)
    \/ \E batch \in AllBatches(PosterTiles, MaxDom) : DoAddBatch(batch)
    \/ \E batch \in AllBatches(PosterTiles, MaxDom) : DoCollectFromDOM(batch)
    \/ \E y \in ScrollYs : DoScroll(y)
    \/ \E h \in {1} : DoWait(h)
    \/ DoMeasure
    \/ DoMeasureBoth
    \/ DoMeasureScrollY
    \/ DoFinalise

SpecPoster == InitPoster /\ [][NextPoster]_vars

\* A run of scrape.mjs over a page with images on several hosts.
InitHost ==
    /\ InitWith(PipeScrolls, PipeChecks)
    /\ prog = "scrape.mjs"
    /\ domLeft = MaxDom
    /\ netLeft = MaxNet

NextHost ==
    \/ DoGoto(TRUE)
    \/ \E batch \in AllBatches(HostTiles, MaxDom) : DoCollectFromDOM(batch)
    \/ \E y \in ScrollYs : DoScroll(y)
    \/ \E h \in {1} : DoWait(h)
    \/ DoMeasure
    \/ \E res \in HostResponses : OnResponse(res)
    \/ \E body \in inFlight : OnBody(body)
    \/ DoFinalise

SpecHost == InitHost /\ [][NextHost]_vars

\* A run of scrape.mjs over a page with malformed tiles and bodies.
InitMalformed ==
    /\ InitWith(PipeScrolls, PipeChecks)
    /\ prog = "scrape.mjs"
    /\ domLeft = MaxDom
    /\ netLeft = MaxNet

NextMalformed ==
    \/ DoGoto(TRUE)
    \/ \E batch \in AllBatches(MalformedTiles, MaxDom) : DoCollectFromDOM(batch)
    \/ \E y \in ScrollYs : DoScroll(y)
    \/ \E h \in {1} : DoWait(h)
    \/ DoMeasure
    \/ \E res \in MalformedResponses : OnResponse(res)
    \/ \E body \in inFlight : OnBody(body)
    \/ DoFinalise

SpecMalformed == InitMalformed /\ [][NextMalformed]_vars

\* The main coroutine is never suspended for ever: every await resolves.
FairSpecLoop == SpecLoop /\ WF_vars(NextLoop)


(***************************************************************************)
(* The claims                                                              *)
(***************************************************************************)

Done == pc = "done"

\* The identity key as the specification defines it, read off an emitted
\* item: the stable id it was stored under if it had one, else the playback
\* id of a stream.mux.com video, else its type and canonical src.
IdentityOf(e) ==
    IF e.key.k = "id" THEN e.key
    ELSE IF e.asset.type = "video" /\ e.asset.src.host = MUX_STREAM_HOST
            /\ Len(e.asset.src.path) > 0
    THEN KeyMux(e.asset.src.path[1])
    ELSE KeyUrl(e.asset.type, normaliseURL(e.asset.src))

C9_PositionedAscending ==
    \A a, b \in 1..Len(ordered) :
        (a < b /\ ordered[a].pass = "dom" /\ ordered[b].pass = "dom")
            => \/ ordered[a].top < ordered[b].top
               \/ (ordered[a].top = ordered[b].top /\ ordered[a].left <= ordered[b].left)

\* C9 witness: two items were positioned lower one first, and emitted in
\* visual order.
C9_Witness ==
    /\ Done
    /\ prog \in {"scrape.mjs", "part_002"}
    /\ Len(ordered) = 2
    /\ ordered[1].top < ordered[2].top
    /\ \/ (Len(positional) = 2 /\ positional[1].top > positional[2].top)
       \/ (Len(itemsByKey) = 2 /\ itemsByKey[1].val.top > itemsByKey[2].val.top)

IdxIn(s, x) == CHOOSE j \in 1..Len(s) : s[j] = x

InSeq(s, x) == \E j \in 1..Len(s) : s[j] = x

\* An emitted item of scrape.mjs that no snapshot ever positioned.
NetworkOnly(e) ==
    \A j \in 1..Len(positional) : OutKey(positional[j].type, positional[j].src) # e.key

\* C10: in scrape.mjs the Assets known from the network alone come after
\* every positioned Asset, in the order the response handler first found
\* their URLs.
C10_NetworkOnlyLast ==
    (Done /\ prog = "scrape.mjs") =>
        \A a, b \in 1..Len(ordered) :
            /\ (NetworkOnly(ordered[a]) /\ ~NetworkOnly(ordered[b])) => b < a
            /\ NetworkOnly(ordered[a]) => InSeq(netFound, ordered[a].asset.src)
            /\ (a < b /\ NetworkOnly(ordered[a]) /\ NetworkOnly(ordered[b]))
                  => IdxIn(netFound, ordered[a].asset.src) < IdxIn(netFound, ordered[b].asset.src)

\* C10 witness: one positioned item, then two found on the network only.
C10_Witness ==
    /\ Done
    /\ prog = "scrape.mjs"
    /\ Len(ordered) = 3
    /\ ~NetworkOnly(ordered[1])
    /\ NetworkOnly(ordered[2])
    /\ NetworkOnly(ordered[3])

\* The steps the loop has run: the completed ones, and the one a break cut.
StepsRun == i + (IF exit = "break" THEN 1 ELSE 0)

\* C2: whatever the page does, the loop is left after at most MAX_SCROLLS
\* steps and the run comes to its end.
C2_LoopTerminates == <>[](pc = "done") /\ [](StepsRun <= MAX_SCROLLS)

\* C2 witness: the height changed and a new item arrived in every step up
\* to the last, and the ceiling ended the loop.
C2_Witness ==
    /\ Done
    /\ exit = "ceiling"
    /\ i = MAX_SCROLLS
    /\ calm = 0
    /\ quiet = 0

\* C3 as stated: scrape.mjs and part_002 break out of the loop only when the
\* height has been unchanged for STABLE_CHECKS steps and no identity is new
\* for STABLE_CHECKS steps.
C3_BreakNeedsBothStreaks ==
    (prog \in {"scrape.mjs", "part_002"} /\ exit = "break")
        => (calm >= STABLE_CHECKS /\ quiet >= STABLE_CHECKS)

\* C4 as stated: in part_002 and part_001, once the height and the item
\* count have both been unchanged for STABLE_CHECKS = 3 steps, the step that
\* saw it was the last: the loop was left by its break.
C4_StableFeedBreaks ==
    (prog \in {"part_002", "part_001"} /\ STABLE_CHECKS = 3
       /\ pc \notin {"scroll", "wait", "measure"}
       /\ calm >= STABLE_CHECKS /\ quiet >= STABLE_CHECKS)
        => exit = "break"

\* A snapshot saw the thumbnail of clip P1 as an item of its own.
PosterObserved == \E t \in observed : t.type = "image" /\ isMuxThumbnail(normaliseURL(t.src))

\* A snapshot saw a video of clip P1.
VideoObserved == \E t \in observed : t.type = "video" /\ muxPlaybackIdFromUrl(t.src) = P1

\* The emitted item is the clip P1 or its thumbnail.
AboutClip(e) == muxPlaybackIdFromUrl(e.asset.src) = P1 \/ isMuxThumbnail(e.asset.src)

\* C5 as stated: in part_002 and part_001, when the thumbnail and the video
\* of one clip were both observed, in whichever order, the output has one
\* entry for the clip, a video whose poster is the thumbnail.
C5_PosterJoinsVideo ==
    (Done /\ prog \in {"part_002", "part_001"} /\ PosterObserved /\ VideoObserved)
        => \E a \in 1..Len(ordered) :
              /\ AboutClip(ordered[a])
              /\ \A b \in 1..Len(ordered) : AboutClip(ordered[b]) => b = a
              /\ ordered[a].asset.type = "video"
              /\ ordered[a].asset.src.host = MUX_STREAM_HOST
              /\ ordered[a].asset.poster = normaliseURL(muxThumb)

\* C6 as stated: when a video of clip P1 was observed, the output has one
\* entry for the clip and its src is the high.mp4 of the clip.
C6_OneHighPerClip ==
    (Done /\ VideoObserved)
        => \E a \in 1..Len(ordered) :
              /\ muxPlaybackIdFromUrl(ordered[a].asset.src) = P1
              /\ \A b \in 1..Len(ordered) :
                    muxPlaybackIdFromUrl(ordered[b].asset.src) = P1 => b = a
              /\ ordered[a].asset.src = muxHigh

\* The reconciliation state of the variant that runs, and that state after
\* one more merge of the observation t.
Reconciled ==
    IF prog = "part_002"
    THEN [keyed |-> itemsByKey, tables |-> seenMuxThumbPlaybackIds]
    ELSE IF prog = "part_001" THEN [keyed |-> collected, tables |-> {}]
    ELSE [keyed |-> foundMap, tables |-> positional]

Remerged(t) ==
    IF prog = "part_002"
    THEN LET st == MergeTile([itemsByKey |-> itemsByKey,
                              seenMuxThumbPlaybackIds |-> seenMuxThumbPlaybackIds], t)
         IN  [keyed |-> st.itemsByKey, tables |-> st.seenMuxThumbPlaybackIds]
    ELSE IF prog = "part_001"
    THEN [keyed |-> AddOne([collected |-> collected, added |-> 0], t).collected, tables |-> {}]
    ELSE LET st == CollectOne([positional |-> positional, foundMap |-> foundMap], t)
         IN  [keyed |-> st.foundMap, tables |-> st.positional]

\* What the finalisation would write from a reconciliation state.
OutputOf(r) ==
    IF prog = "part_002" THEN FinalItems_p2(r.keyed)
    ELSE IF prog = "part_001" THEN FinalItems_p1(r.keyed)
    ELSE BuildOrdered(r.tables, r.keyed)

ByKey(m) == { m[j] : j \in 1..Len(m) }

MergedInOrder(t1, t2) ==
    IF prog = "part_002"
    THEN ByKey(collectVisibleTiles([itemsByKey |-> <<>>, seenMuxThumbPlaybackIds |-> {}],
                                   <<t1, t2>>).itemsByKey)
    ELSE ByKey(addBatch(<<>>, <<t1, t2>>).collected)

\* C8 as stated: in part_002 and part_001 two observations merged in one
\* order or the other leave the same src, poster and position under each key.
C8_MergeOrderIrrelevant ==
    prog \in {"part_002", "part_001"}
        => \A t1, t2 \in GalleryTiles : MergedInOrder(t1, t2) = MergedInOrder(t2, t1)

\* The run is over: the payload is written, or the process died.
Ended == pc \in {"done", "crashed"}

\* C11 as stated: a run whose navigation failed ends with the failure
\* payload written and a non-zero exit status.
C11_NavigationFailureReported ==
    (nav = "failed" /\ Ended)
        => /\ payload = FailPayload(payload.error)
           /\ payload.error # ""
           /\ exitCode # 0

\* The bodies of the handled JSON responses that the handler has read to
\* their end.
BodiesRead == { r.body : r \in { h \in heard : AwaitsBody(h) /\ h.body \notin inFlight } }

\* C12: in scrape.mjs a tile whose src does not parse changes neither the
\* positional list nor foundMap, the tiles that do parse are merged whatever
\* came with them, a body read to its end has given every URL of it that
\* parses, and the run ends with a success payload.
C12_MalformedDropped ==
    /\ \A t \in MalformedTiles :
          ~t.src.ok => CollectOne([positional |-> positional, foundMap |-> foundMap], t)
                          = [positional |-> positional, foundMap |-> foundMap]
    /\ \A t \in observed : t.src.ok => MapHas(foundMap, normaliseURL(t.src))
    /\ \A b \in BodiesRead :
          \A j \in 1..Len(b) : b[j].ok => InSeq(netFound, normaliseURL(b[j]))
    /\ pc # "crashed"
    /\ Done => (payload.written /\ payload.ok)

\* C12 witness: the run ended after a snapshot with a tile that does not
\* parse and a body with a URL that does not parse, and wrote the image of
\* the snapshot and the image of the body.
C12_Witness ==
    /\ Done
    /\ \E t \in observed : ~t.src.ok
    /\ <<NullUrl, cosmosImgB>> \in BodiesRead
    /\ <<>> \in BodiesRead
    /\ payload.ok
    /\ payload.count = 2
    /\ payload.items[2].src = cosmosImgB

\* Raw URLs: with a query, with credentials, with an opaque path, unparsable.
RawUrls ==
    { cosmosImg, muxLow, NullUrl,
      UrlWithUser("u", <<"cdn", "cosmos", "so">>, <<Seg("a", "jpg")>>),
      OpaqueUrl("a", <<"b", "c">>) }

\* The canonicalization of the variant that runs.
Canonical(u) ==
    IF prog = "part_002" THEN normaliseURL_p2(u)
    ELSE IF prog = "part_001" THEN normUrl(u)
    ELSE normaliseURL(u)

\* C13 as stated: a canonical URL is its own canonical form.
C13_CanonicalIdempotent ==
    \A u \in RawUrls : Canonical(u).ok => Canonical(Canonical(u)) = Canonical(u)

\* The URL without its query and its fragment.
Bare(u) == [u EXCEPT !.query = "", !.hash = ""]

\* Two image observations whose URLs differ in query or fragment only.
QueryVariants(a, b) ==
    /\ a.type = "image" /\ b.type = "image"
    /\ a.src # b.src
    /\ Bare(a.src) = Bare(b.src)

\* The output has one entry for the URL u, with src u.
EmittedOnce(u) ==
    \E j \in 1..Len(ordered) :
        /\ ordered[j].asset.src = u
        /\ \A k \in 1..Len(ordered) : Bare(ordered[k].asset.src) = u => k = j

ImageHostKept(h) == prog = "scrape.mjs" => isCosmosImageHost(h)

MuxKnown ==
    \/ \E t \in observed : t.src.ok /\ t.src.host = MUX_STREAM_HOST /\ VIDEO_EXT_RE(t.src)
    \/ \E j \in 1..Len(netFound) : netFound[j].host = MUX_STREAM_HOST /\ VIDEO_EXT_RE(netFound[j])

SelfHostedEmitted == \E j \in 1..Len(ordered) : isCosmosHostedMp4(ordered[j].asset.src)

\* C15: when a stream.mux.com video is known to the run by finalization,
\* from the DOM or from the network, the output holds no video with a video
\* extension on cdn.cosmos.so or files.cosmos.so.
C15_NoSelfHostedBesideMux == Done => (MuxKnown => ~SelfHostedEmitted)

AssetFields == {"type", "src", "width", "height", "poster"}

\* C16: the payload a run writes when it succeeds has ok = true, the target
\* URL as source, count equal to the length of items, and items that carry
\* type, src, width, height and poster only (a poster of NullUrl is a
\* poster that is absent): no top, left or position.
C16_SuccessPayloadShape ==
    (Done /\ nav = "ok") =>
        /\ payload.written /\ payload.ok
        /\ payload.source = COSMOS_URL
        /\ payload.count = Len(payload.items)
        /\ payload.items = [j \in 1..Len(ordered) |-> ordered[j].asset]
        /\ \A j \in 1..Len(payload.items) :
              /\ DOMAIN payload.items[j] \subseteq AssetFields
              /\ {"type", "src", "width", "height"} \subseteq DOMAIN payload.items[j]

\* C16 witness: a run wrote two items that were stored with a position, one
\* with a poster and one without.
C16_Witness ==
    /\ Done /\ payload.ok
    /\ payload.count = 2
    /\ \E j \in 1..2 : payload.items[j].poster.ok
    /\ \E j \in 1..2 : ~payload.items[j].poster.ok
    /\ \A j \in 1..2 : ordered[j].top > 0

\* A streaming manifest: a URL whose path ends in .m3u8.
Manifest(u) == u.ok /\ PathExt(u.path) = "m3u8"

\* C17: no emitted Asset has a streaming manifest as its src or as its
\* poster, whichever way the URL came in: a tile of a snapshot, a direct
\* response or a URL embedded in a JSON body.
C17_NoManifestEmitted ==
    Done => \A j \in 1..Len(ordered) :
                ~Manifest(ordered[j].asset.src) /\ ~Manifest(ordered[j].asset.poster)

\* The thumbnail shape: image.mux.com/<playbackId>/thumbnail.png.
ThumbnailShaped(u) ==
    u.ok /\ u.host = MUX_IMAGE_HOST /\ Len(u.path) = 2 /\ u.path[2] = Seg("thumbnail", "png")

\* C18: no emitted Asset has a thumbnail-shaped URL as its src, whether a
\* video of the same playback id was observed or not.
C18_NoStandaloneThumbnail ==
    Done => \A j \in 1..Len(ordered) : ~ThumbnailShaped(ordered[j].asset.src)

\* The position recorded for each key: the keyed collection of part_002 and
\* part_001, and for scrape.mjs the record the positional pass keeps per key.
KeyedPositions(keyed, tables) ==
    IF prog = "scrape.mjs"
    THEN LET o == BuildOrdered(tables, <<>>)
         IN  [j \in 1..Len(o) |-> [key |-> o[j].key, top |-> o[j].top, left |-> o[j].left]]
    ELSE [j \in 1..Len(keyed) |->
              [key |-> keyed[j].key, top |-> keyed[j].val.top, left |-> keyed[j].val.left]]

Recorded == KeyedPositions(Reconciled.keyed, Reconciled.tables)

\* What one observation records when it is merged into an empty collection:
\* nothing if the variant rejects it, else its key with its own position.
Alone(t) ==
    IF prog = "part_002"
    THEN KeyedPositions(MergeTile([itemsByKey |-> <<>>, seenMuxThumbPlaybackIds |-> {}],
                                  t).itemsByKey, <<>>)
    ELSE IF prog = "part_001"
    THEN KeyedPositions(AddOne([collected |-> <<>>, added |-> 0], t).collected, <<>>)
    ELSE KeyedPositions(<<>>, CollectOne([positional |-> <<>>, foundMap |-> <<>>],
                                         t).positional)

\* The positions of the observations that were merged under key k.
PositionsOf(k) ==
    { <<t.top, t.left>> : t \in { o \in observed : Len(Alone(o)) = 1 /\ Alone(o)[1].key = k } }

LexLeq(p, q) == p[1] < q[1] \/ (p[1] = q[1] /\ p[2] <= q[2])

\* C19: for every key, the recorded position is the position of one of the
\* observations merged for that key, and no observation merged for that key
\* has a lower top, or the same top and a lower left.
C19_PositionIsLexMin ==
    \A j \in 1..Len(Recorded) :
        LET r == Recorded[j]
        IN  /\ <<r.top, r.left>> \in PositionsOf(r.key)
            /\ \A q \in PositionsOf(r.key) : LexLeq(<<r.top, r.left>>, q)

\* The keyed collection of the variant that runs.
Keyed == Reconciled.keyed

\* What a step keeps of a stored item: its key, its poster if it had one,
\* and each dimension that was not 0.
Kept(key, val, after) ==
    /\ MapHas(after, key)
    /\ val.poster.ok => MapGet(after, key).poster.ok
    /\ val.width # 0 => MapGet(after, key).width # 0
    /\ val.height # 0 => MapGet(after, key).height # 0

\* C20: no step of a run removes a key from the keyed collection, takes the
\* poster away from a stored item that had one, or resets to 0 a width or a
\* height that was not 0.
C20_MergesMonotonic ==
    [][\A j \in 1..Len(Keyed) : Kept(Keyed[j].key, Keyed[j].val, Keyed')]_vars

HighTier(u) ==
    u.ok /\ u.host = MUX_STREAM_HOST /\ Len(u.path) = 2 /\ u.path[2] = Seg("high", "mp4")

\* The src stored for each key: the keyed collection of part_002 and
\* part_001, and for scrape.mjs the record the positional pass keeps per key.
StoredSrc(keyed, tables) ==
    IF prog = "scrape.mjs"
    THEN LET o == BuildOrdered(tables, <<>>)
         IN  [j \in 1..Len(o) |-> [key |-> o[j].key, src |-> o[j].asset.src]]
    ELSE [j \in 1..Len(keyed) |-> [key |-> keyed[j].key, src |-> keyed[j].val.src]]

Stored == StoredSrc(Reconciled.keyed, Reconciled.tables)

\* C21: once the src stored for a playback id is its high.mp4, no step
\* leaves that key with a src of another tier.
C21_NoDowngrade ==
    [][\A j \in 1..Len(Stored) :
          HighTier(Stored[j].src) =>
              \A n \in 1..Len(Stored') :
                  Stored'[n].key = Stored[j].key => HighTier(Stored'[n].src)]_vars

\* An observation the variant stores, and the key it stores it under.
Accepted(t) == Len(Alone(t)) = 1

ObsKey(t) == Alone(t)[1].key

\* The key of an observation follows the priority: stable id, else the
\* playback id of a stream.mux.com video, else type and canonical src.
KeyFollowsPriority(t) ==
    LET k == ObsKey(t)
        pid == muxPlaybackIdFromStream(Canonical(t.src))
    IN  IF t.stableId # "" THEN k.k = "id" /\ k.sid = t.stableId
        ELSE IF t.type = "video" /\ pid # NoSeg THEN k = KeyMux(pid)
        ELSE k = KeyUrl(t.type, Canonical(t.src))

\* C22: every stored observation is keyed by that priority, two stored
\* observations with the same stable id have the same key, and an
\* observation without a stable id never has an id key.
C22_KeyPriority ==
    /\ \A t \in observed : Accepted(t) => KeyFollowsPriority(t)
    /\ \A a, b \in observed :
          (Accepted(a) /\ Accepted(b) /\ a.stableId # "" /\ a.stableId = b.stableId)
              => ObsKey(a) = ObsKey(b)
    /\ \A t \in observed : (Accepted(t) /\ t.stableId = "") => ObsKey(t).k # "id"

\* The largest value of a set of naturals, 0 for the empty set.
MaxOf(S) == IF S = {} THEN 0 ELSE CHOOSE m \in S : \A n \in S : n <= m

\* The observations stored under key k.
ObservedAs(k) == { t \in observed : Accepted(t) /\ ObsKey(t) = k }

\* C23: in scrape.mjs the width and the height of an emitted Asset are the
\* largest non-zero width and height that an observation of its key
\* reported, 0 if none reported one.
C23_LargestDimsEmitted ==
    (Done /\ prog = "scrape.mjs") =>
        \A j \in 1..Len(ordered) :
            ordered[j].pass = "dom" =>
                /\ ordered[j].asset.width
                      = MaxOf({ clampDim(t.width) : t \in ObservedAs(ordered[j].key) })
                /\ ordered[j].asset.height
                      = MaxOf({ clampDim(t.height) : t \in ObservedAs(ordered[j].key) })

\* C24: every emitted width and height is in 0..20000, and clampDim maps
\* what is not a number, not finite, zero or negative to 0 and what is
\* positive into 1..20000.
C24_DimsClamped ==
    /\ \A j \in 1..Len(ordered) :
          ordered[j].asset.width \in 0..DIM_MAX /\ ordered[j].asset.height \in 0..DIM_MAX
    /\ \A x \in JsValues :
          IF x.t \in {"int", "half"} /\ (x.v > 0 \/ (x.t = "half" /\ x.v = 0))
          THEN clampDimOf(x) \in 1..DIM_MAX
          ELSE clampDimOf(x) = 0

\* C24 witness: a tile that reported a negative width and a height over
\* the bound was emitted with width 0 and height 20000.
C24_Witness ==
    /\ Done
    /\ \E t \in observed : t.width < 0 /\ t.height > DIM_MAX
    /\ \E j \in 1..Len(ordered) : ordered[j].asset.width = 0 /\ ordered[j].asset.height = DIM_MAX

\* C25: no emitted Asset of type image has a poster, also when the tile was
\* a <video> whose src has no video extension.
C25_PosterOnVideoOnly ==
    Done => \A j \in 1..Len(ordered) :
                ordered[j].asset.type = "image" => ~ordered[j].asset.poster.ok

\* C26: in part_002, `stable` is the number of consecutive steps, up to the
\* last one measured, whose height was the height of the step before, and
\* `noNewCount` the number of consecutive steps, up to the last snapshot of
\* the loop, that did not grow the collection; either one restarts at 0
\* whatever the other does.
C26_CountersAreStreaks ==
    prog = "part_002" => (stable = calm /\ noNewCount = quiet)

\* C26 witness: after three steps the height streak is 2 while the third
\* snapshot brought a new item, and the loop goes on.
C26_Witness ==
    /\ prog = "part_002"
    /\ pc = "collect"
    /\ i = 3
    /\ stable = 2 /\ calm = 2
    /\ noNewCount = 0 /\ quiet = 0
    /\ Len(itemsByKey) = 2

\* The progress of the controller: Idle before the loop, Advancing in it,
\* Converged once it has decided to stop.
Phase == IF exit # "none" THEN 2 ELSE IF InLoop THEN 1 ELSE IF pc = "goto" THEN 0 ELSE 2

\* C27: a step is snapshot-and-merge, then scroll, then the settle wait,
\* then the stability check; once the controller has decided to stop no
\* scroll is issued and no step runs; the progression never goes backwards.
C27_StepOrder ==
    [][/\ pc = "collect" => pc' \in {"collect", "scroll"}
       /\ pc = "scroll" => pc' \in {"scroll", "wait"}
       /\ pc = "wait" => pc' \in {"wait", "measure"}
       /\ pc = "measure" => pc' \in {"measure", "collect", "final", "close"}
       /\ pc' = "scroll" => pc \in {"scroll", "collect"}
       /\ exit # "none" => (exit' = exit /\ i' = i /\ pc' \notin {"collect", "scroll", "wait", "measure"})
       /\ Phase' >= Phase]_vars

\* C27 witness: the loop ran two steps, decided to stop at the third and
\* the run ended.
C27_Witness ==
    /\ Done
    /\ exit = "break"
    /\ i = 2
    /\ nav = "ok"

\* A step of the response handler: it took a response, or it read a body.
HandlerStep == netLeft' # netLeft \/ inFlight' # inFlight

\* C28: in scrape.mjs a step of the response handler leaves foundMap and
\* positional as they were, and foundMap changes in collectFromDOM only,
\* that is, in the step that leaves "collect" or "final".
C28_HandlerKeepsReconciled ==
    [][prog = "scrape.mjs" =>
          /\ HandlerStep => (foundMap' = foundMap /\ positional' = positional)
          /\ netFound' # netFound => HandlerStep
          /\ (foundMap' # foundMap \/ positional' # positional)
                => (pc \in {"collect", "final"} /\ pc' \in {"scroll", "close"})]_vars

\* C28 witness: the handler has recorded two URLs, one of them from a body,
\* while the loop was running, and foundMap and positional are still empty.
C28_Witness ==
    /\ prog = "scrape.mjs"
    /\ InLoop
    /\ Len(netFound) = 2
    /\ \E r \in heard : r.json
    /\ inFlight = {}
    /\ foundMap = <<>> /\ positional = <<>>

NetKey(u) == OutKey(IF VIDEO_EXT_RE(u) THEN "video" ELSE "image", normaliseURL(u))

\* The rules that keep an accepted URL out of the output: the self-hosted
\* copy of a provider video, and an image that is not on a cosmos.so host.
Suppressed(u) ==
    \/ VIDEO_EXT_RE(u) /\ hasAnyMux(positional) /\ isCosmosHostedMp4(u)
    \/ ~VIDEO_EXT_RE(u) /\ ~isCosmosImageHost(u.host)

\* C30: in scrape.mjs, when the run is over, every URL the response handler
\* put into netFound has an Asset with its key in the output, unless one of
\* the two rules suppressed it, whenever the handler ran.
C30_NetFoundEmitted ==
    (Done /\ prog = "scrape.mjs") =>
        \A n \in 1..Len(netFound) :
            \/ Suppressed(netFound[n])
            \/ \E j \in 1..Len(ordered) : ordered[j].key = NetKey(netFound[n])

\* Every emitted image is on cosmos.so or on a subdomain of it.
ImagesOnCosmos ==
    \A j \in 1..Len(ordered) :
        ordered[j].asset.type = "image" =>
            (ordered[j].asset.src.host = <<"cosmos", "so">>
             \/ (Len(ordered[j].asset.src.host) > 2
                 /\ HostTail(ordered[j].asset.src.host, 2) = <<"cosmos", "so">>))

\* A tile observed as an image whose URL is on such a host and has no file
\* extension.
BareCosmosImage(t) ==
    /\ t.type = "image"
    /\ t.src.ok
    /\ Len(t.src.host) >= 2 /\ HostTail(t.src.host, 2) = <<"cosmos", "so">>
    /\ PathExt(t.src.path) = ""

EmittedAsImage(u) ==
    \E j \in 1..Len(ordered) : ordered[j].asset.src = u /\ ordered[j].asset.type = "image"

\* C31 as stated: in scrape.mjs no emitted image is on a host other than
\* cosmos.so or a subdomain of it, in either pass, and every extension-less
\* URL on such a host that was observed as an image is emitted as an image.
C31_CosmosImagesOnly ==
    (Done /\ prog = "scrape.mjs") =>
        /\ ImagesOnCosmos
        /\ \A t \in observed : BareCosmosImage(t) => EmittedAsImage(Bare(t.src))

\* C31, amended: in scrape.mjs no emitted image is on a host other than
\* cosmos.so or a subdomain of it, in either pass, and every extension-less
\* URL on such a host that was observed as an image and that the exclusion
\* list does not reject is emitted as an image.
C31_CosmosImagesOnlyUnlessExcluded ==
    (Done /\ prog = "scrape.mjs") =>
        /\ ImagesOnCosmos
        /\ \A t \in observed :
              (BareCosmosImage(t) /\ ~HasSegNamed(t.src, {"default-avatars", "_next", "favicon"}))
                  => EmittedAsImage(Bare(t.src))

\* C31 witness: the snapshots showed an extension-less cosmos.so image and a
\* prismic image, the network named an extension-less prismic URL that was
\* merged into foundMap, and the output is the cosmos.so image alone.
C31_Witness ==
    /\ Done /\ prog = "scrape.mjs"
    /\ \E t \in observed : t.src = cosmosBare
    /\ \E t \in observed : t.src = prismicImg
    /\ MapHas(foundMap, prismicBare)
    /\ Len(ordered) = 1
    /\ ordered[1].asset.src = cosmosBare /\ ordered[1].asset.type = "image"

=============================================================================
